---- MODULE Spec2Model ----
(***************************************************************************)
(* Model of src/main/mainloop.py: the supervisory loop of the HUDSON       *)
(* sensor node (run_mainloop), the interrupt handler nm3_callback and the  *)
(* command dispatch on received payloads.                                  *)
(*                                                                         *)
(* The main thread is a program counter over the statements of             *)
(* run_mainloop ("L<line>"); the interrupt handler is one atomic action    *)
(* that may fire between any two statements once the ExtInt is registered. *)
(*                                                                         *)
(* Time is counted in whole seconds and kept as two elapsed-time clocks,   *)
(* which is all the code and the hardware compare:                         *)
(*   sync_age    = utime.time() - _nm3_callback_seconds, saturated at      *)
(*                 SYNC_WINDOW_S + 1 (the code only compares the           *)
(*                 difference with 30);                                    *)
(*   wdt_elapsed = seconds since the watchdog counter was last reloaded,   *)
(*                 saturated at the timeout, where the hardware resets.    *)
(* The values captured by the handler are kept symbolically: the reading   *)
(* taken at the k-th edge is k, the initial value is 0.                    *)
(***************************************************************************)
EXTENDS Integers, Sequences, FiniteSets, TLC

\* ---------------------------------------------------------------- bounds
MaxEdges == 2       \* interrupt edges per run
MaxMsgs == 2        \* messages the modem delivers per run

\* ------------------------------------------------------ program constants
WDT_TIMEOUT_MS == 30000        \* machine.WDT(timeout=30000)
SYNC_WINDOW_S == 30            \* "_nm3_callback_seconds + 30"
NM3_SETTLE_MS == 10000         \* utime.sleep_ms(10000)
MOD_SEND_DELAY_MS == 1000      \* utime.sleep_ms(1000)
MIN_NETWORK_LEN == 2           \* len(packet_payload) > 2

WDT_TIMEOUT_S == WDT_TIMEOUT_MS \div 1000

\* Whole seconds a utime.sleep_ms(ms) adds to the clocks.
SleepSeconds(ms) == ms \div 1000

Min(a, b) == IF a < b THEN a ELSE b

VARIABLES
    pc,                     \* position of the main thread in run_mainloop
    cpu_stopped,            \* TRUE while machine.lightsleep() has the CPU stopped
    _env_variables,         \* module global set by set_environment_variables
    _nm3_callback_flag,
    _nm3_callback_seconds,  \* reading taken at edge k (0: initial value)
    _nm3_callback_millis,
    _nm3_callback_micros,
    sync_age,               \* utime.time() - _nm3_callback_seconds, saturated
    edges,                  \* number of edges handled so far
    takes,                  \* times the loop saw the flag true before clearing it
    wdt_started,
    wdt_elapsed,            \* seconds since the last wdt.feed(), saturated
    extint_enabled,         \* nm3_callback registered on the Y3 rising edge
    nm3_powered,            \* PowerModule: modem supply
    en_3v3,                 \* pyb.Pin.board.EN_3V3
    tx_forced,              \* MAX3221E transmit path: "unset", "on", "off"
    pullups,                \* PULL_SCL / PULL_SDA: "unset", "on", "off"
    uart_open,
    nm3_incoming,           \* messages polled from the UART, not yet parsed:
                            \* payload and arrival number
    nm3_packets,            \* the modem's queue of fully received packets,
                            \* each with its arrival number
    rx_count,               \* messages delivered so far
    dispatched,             \* arrival numbers of the messages taken by
                            \* get_received_packet, in the order taken
    message_packet,         \* the local message_packet of the loop
    nm3_address,            \* the local nm3_address
    mod_index,              \* position of the for loop over installed modules
    acts,                   \* externally visible actions since the last
                            \* get_received_packet (or since startup)
    iteration,              \* 0 in the startup, 1 in the first iteration of
                            \* the loop, 2 in every later one
    polled,                 \* poll_receiver was called in this iteration and
                            \* the sleep test of line 323 is still to come
    slept,                  \* the sleep half (lines 327-338) was executed in
                            \* this iteration
    reset_cause             \* "" while running, else what reset the device

vars == << pc, cpu_stopped, _env_variables, _nm3_callback_flag,
           _nm3_callback_seconds, _nm3_callback_millis, _nm3_callback_micros,
           sync_age, edges, takes, wdt_started, wdt_elapsed, extint_enabled,
           nm3_powered, en_3v3, tx_forced, pullups, uart_open, nm3_incoming,
           nm3_packets, rx_count, dispatched, message_packet, nm3_address, mod_index,
           acts, iteration, polled, slept, reset_cause >>

\* Groups of variables left alone by most statements.
isr_vars == << _nm3_callback_flag, _nm3_callback_seconds,
               _nm3_callback_millis, _nm3_callback_micros, edges >>
clock_vars == << sync_age, wdt_elapsed >>
rail_vars == << nm3_powered, en_3v3, tx_forced, pullups, uart_open,
                extint_enabled >>
modem_vars == << nm3_incoming, nm3_packets, rx_count, dispatched >>
local_vars == << message_packet, nm3_address, mod_index >>
iter_vars == << iteration, polled, slept >>

\* ------------------------------------------------------------ data values
\* Payloads are byte sequences, one character per byte.
USMRT == << "U", "S", "M", "R", "T" >>
USOTA == << "U", "S", "O", "T", "A" >>
USPNG == << "U", "S", "P", "N", "G" >>
USMOD == << "U", "S", "M", "O", "D" >>
NetPayload == << "#", "a", "b" >>       \* '#'-prefixed, 3 bytes
ShortNetPayload == << "#", "a" >>       \* '#'-prefixed, 2 bytes
EmptyPayload == << >>
OtherPayload == << "U", "S", "M", "R" >>

Payloads == { USMRT, USOTA, USPNG, USMOD, NetPayload, ShortNetPayload,
              EmptyPayload, OtherPayload }

\* Python truthiness of a sequence (bytes, list, dict items): non-empty.
Truthy(seq) == Len(seq) > 0

\* Python None for the optional strings and mappings of the model.
None == [is_none |-> TRUE, items |-> << >>, text |-> ""]
Str(t) == [is_none |-> FALSE, items |-> << >>, text |-> t]
Mapping(its) == [is_none |-> FALSE, items |-> its, text |-> ""]

\* truthiness of an optional value: None, "" and {} are false
TruthyValue(v) == ~v.is_none /\ (Truthy(v.items) \/ v.text # "")

\* An item of a mapping: key and value.
Item(k, v) == [key |-> k, value |-> v]

\* "k in mapping"
HasKey(m, k) == \E i \in 1..Len(m.items) : m.items[i].key = k
\* mapping[k]
Lookup(m, k) ==
    LET i == CHOOSE j \in 1..Len(m.items) : m.items[j].key = k
    IN  m.items[i].value

\* The environment mappings handed to set_environment_variables.
InstalledModules ==
    Mapping(<< Item("alpha", Str("1.0")), Item("beta", None) >>)
EnvAbsent == None
EnvNoModulesEntry == Mapping(<< Item("other", Str("x")) >>)
EnvEmptyModules == Mapping(<< Item("installedModules", Mapping(<< >>)) >>)
EnvModules == Mapping(<< Item("installedModules", InstalledModules) >>)
Environments == { EnvAbsent, EnvNoModulesEntry, EnvEmptyModules, EnvModules }

\* Answers of the modem to get_address() and get_battery_voltage()
\* (the voltage in hundredths of a volt).
Addresses == { 7, 120 }
Voltages == { 370 }

\* ------------------------------------------------------------- formatting
Digit(d) == << "0", "1", "2", "3", "4", "5", "6", "7", "8", "9" >>[d + 1]

\* str(n) for n >= 0
RECURSIVE Decimal(_)
Decimal(n) == IF n < 10 THEN Digit(n) ELSE Decimal(n \div 10) \o Digit(n % 10)

\* "{:03d}".format(n): zero-padded to a width of 3
Format03d(n) ==
    IF n < 0 THEN "-" \o (IF -n < 10 THEN "0" ELSE "") \o Decimal(-n)
    ELSE (IF n < 10 THEN "00" ELSE IF n < 100 THEN "0" ELSE "") \o Decimal(n)

\* "{:0.2f}".format(v) for a voltage v given in hundredths
Format2f(cv) == Decimal(cv \div 100) \o "." \o Digit((cv % 100) \div 10)
                    \o Digit(cv % 10)

\* str(x) of an optional string
PyStr(v) == IF v.is_none THEN "None" ELSE v.text

REVISION == "REV:2021-07-09T17:38:00"

\* alive_string of send_usmart_alive_message
AliveString(address, voltage) ==
    "UA" \o Format03d(address) \o "B" \o Format2f(voltage) \o "V" \o REVISION

\* Variant: mod_string with the address formatted without padding
ModStringUnpadded(address, mod, version) ==
    "UM" \o Decimal(address) \o ":" \o mod \o ":"
         \o PyStr(IF TruthyValue(version) THEN version ELSE Str("None"))

\* mod_string of the USMOD loop
ModString(address, mod, version) ==
    "UM" \o Format03d(address) \o ":" \o mod \o ":"
         \o PyStr(IF TruthyValue(version) THEN version ELSE Str("None"))

\* utime.localtime(seconds): the calendar tuple of a reading of the clock
LocalTime(seconds) == [localtime_of |-> seconds]

\* The packet returned by get_received_packet: the modem leaves the three
\* timestamp fields unset (the calendar tuple of no reading, and -1).
Packet(payload) ==
    [packet_payload |-> payload, timestamp |-> LocalTime(-1),
     timestamp_millis |-> -1, timestamp_micros |-> -1]
NoPacket == Packet(<< "-" >>)

\* An entry of the action log: the operation, its text argument and, for
\* handle_packet, the packet handed over.
Act(op, arg) == [op |-> op, arg |-> arg, packet |-> NoPacket]
ActPacket(op, packet) == [op |-> op, arg |-> "", packet |-> packet]

\* ------------------------------------------------------------------ clocks
\* The device is running: not reset, and the watchdog has not expired.
Live == reset_cause = "" /\ ~(wdt_started /\ wdt_elapsed >= WDT_TIMEOUT_S)

\* d seconds pass.
Advance(d) ==
    /\ sync_age' = Min(sync_age + d, SYNC_WINDOW_S + 1)
    /\ wdt_elapsed' = IF wdt_started THEN Min(wdt_elapsed + d, WDT_TIMEOUT_S)
                      ELSE wdt_elapsed

\* wdt.feed(): reload the watchdog counter
Feed == wdt_elapsed' = 0

\* utime.time() < _nm3_callback_seconds + 30
WithinWindow == sync_age < SYNC_WINDOW_S
\* utime.time() > _nm3_callback_seconds + 30
PastWindow == sync_age > SYNC_WINDOW_S

\* ------------------------------------------------------------ construction
\* The module is imported: lines 54-59 set the globals. utime.time() counts
\* from the RTC's epoch, so at boot it is either still inside the first 30
\* seconds (a clock that starts at 0) or far past them.
Init ==
    /\ pc = "import"
    /\ cpu_stopped = FALSE
    /\ _env_variables = None
    /\ _nm3_callback_flag = FALSE
    /\ _nm3_callback_seconds = 0
    /\ _nm3_callback_millis = 0
    /\ _nm3_callback_micros = 0
    /\ sync_age \in { 0, SYNC_WINDOW_S + 1 }
    /\ edges = 0
    /\ takes = 0
    /\ wdt_started = FALSE
    /\ wdt_elapsed = 0
    /\ extint_enabled = FALSE
    /\ nm3_powered = TRUE
    /\ en_3v3 = FALSE
    /\ tx_forced = "unset"
    /\ pullups = "unset"
    /\ uart_open = FALSE
    /\ nm3_incoming = << >>
    /\ nm3_packets = << >>
    /\ rx_count = 0
    /\ dispatched = << >>
    /\ message_packet = NoPacket
    /\ nm3_address = 0
    /\ mod_index = 0
    /\ acts = << >>
    /\ iteration = 0
    /\ polled = FALSE
    /\ slept = FALSE
    /\ reset_cause = ""

\* ------------------------------------------------------- interrupt handler
\* Variant: a handler that toggles the flag, clearing it when it is set
nm3_callback_toggle ==
    /\ _nm3_callback_micros' = edges + 1
    /\ _nm3_callback_millis' = edges + 1
    /\ _nm3_callback_seconds' = edges + 1
    /\ sync_age' = 0
    /\ _nm3_callback_flag' = ~_nm3_callback_flag

\* nm3_callback(line): the four writes of lines 69-72. It runs to completion
\* before the main thread resumes.
nm3_callback ==
    /\ _nm3_callback_micros' = edges + 1
    /\ _nm3_callback_millis' = edges + 1
    /\ _nm3_callback_seconds' = edges + 1
    /\ sync_age' = 0
    /\ _nm3_callback_flag' = TRUE

\* A rising edge on Y3: the hardware wakes a stopped CPU and runs the handler.
ExtInt ==
    /\ Live
    /\ extint_enabled
    /\ edges < MaxEdges
    /\ nm3_callback
    /\ edges' = edges + 1
    /\ cpu_stopped' = FALSE
    /\ UNCHANGED << pc, _env_variables, takes, iter_vars, wdt_started,
                    wdt_elapsed, nm3_powered, en_3v3, tx_forced, pullups,
                    uart_open, extint_enabled, modem_vars, local_vars, acts,
                    reset_cause >>

\* The watchdog expires: the hardware resets the device.
WdtReset ==
    /\ reset_cause = ""
    /\ wdt_started
    /\ wdt_elapsed >= WDT_TIMEOUT_S
    /\ reset_cause' = "WDT_RESET"
    /\ pc' = "reset"
    /\ cpu_stopped' = FALSE
    /\ UNCHANGED << _env_variables, isr_vars, clock_vars, takes, iter_vars,
                    wdt_started, rail_vars, modem_vars, local_vars, acts >>

\* ------------------------------------------------------------------ startup
\* A statement of the main thread that only moves on.
Goto(from, to) == Live /\ pc = from /\ pc' = to

\* set_environment_variables(env_variables_dict), called before run_mainloop
set_environment_variables ==
    /\ Goto("import", "main")
    /\ \E env \in Environments : _env_variables' = env
    /\ UNCHANGED << cpu_stopped, isr_vars, clock_vars, takes, iter_vars,
                    wdt_started, rail_vars, modem_vars, local_vars, acts,
                    reset_cause >>

\* line 111: wdt = machine.WDT(timeout=30000)
L111_StartWatchdog ==
    /\ Live /\ pc \in { "import", "main" } /\ pc' = "L136"
    /\ wdt_started' = TRUE
    /\ wdt_elapsed' = 0
    /\ UNCHANGED << cpu_stopped, _env_variables, isr_vars, sync_age, takes,
                    iter_vars, rail_vars, modem_vars, local_vars, acts,
                    reset_cause >>

\* line 136: wdt.feed()
L136_Feed ==
    /\ Goto("L136", "L144")
    /\ Feed
    /\ acts' = Append(acts, Act("feed", ""))
    /\ UNCHANGED << cpu_stopped, _env_variables, isr_vars, sync_age, takes,
                    iter_vars, wdt_started, rail_vars, modem_vars, local_vars,
                    reset_cause >>

\* lines 143-144: powermodule.disable_nm3()
L144_DisableNm3 ==
    /\ Goto("L144", "L147")
    /\ nm3_powered' = FALSE
    /\ acts' = Append(acts, Act("disable_nm3", ""))
    /\ UNCHANGED << cpu_stopped, _env_variables, isr_vars, clock_vars, takes,
                    iter_vars, wdt_started, en_3v3, tx_forced, pullups,
                    uart_open, extint_enabled, modem_vars, local_vars,
                    reset_cause >>

\* line 147: pyb.Pin.board.EN_3V3.on()
L147_Enable3V3 ==
    /\ Goto("L147", "L148")
    /\ en_3v3' = TRUE
    /\ acts' = Append(acts, Act("EN_3V3.on", ""))
    /\ UNCHANGED << cpu_stopped, _env_variables, isr_vars, clock_vars, takes,
                    iter_vars, wdt_started, nm3_powered, tx_forced, pullups,
                    uart_open, extint_enabled, modem_vars, local_vars,
                    reset_cause >>

\* line 148: pyb.Pin('Y5', pyb.Pin.OUT, value=0): the pin that forces the
\* transmit path is made an output and driven low, the level of
\* tx_force_off()
L148_ConfigureY5 ==
    /\ Goto("L148", "L150")
    /\ tx_forced' = "off"
    /\ acts' = Append(acts, Act("Y5.value", "0"))
    /\ UNCHANGED << cpu_stopped, _env_variables, isr_vars, clock_vars, takes,
                    iter_vars, wdt_started, nm3_powered, en_3v3, pullups,
                    uart_open, extint_enabled, modem_vars, local_vars,
                    reset_cause >>

\* lines 149-150: max3221e = MAX3221E(Y5); max3221e.tx_force_on()
L150_TxForceOn ==
    /\ Goto("L150", "L155")
    /\ tx_forced' = "on"
    /\ acts' = Append(acts, Act("tx_force_on", ""))
    /\ UNCHANGED << cpu_stopped, _env_variables, isr_vars, clock_vars, takes,
                    iter_vars, wdt_started, nm3_powered, en_3v3, pullups,
                    uart_open, extint_enabled, modem_vars, local_vars,
                    reset_cause >>

\* lines 154-155: the ExtInt on Y3 is cleared, then set to nm3_callback
L155_RegisterExtInt ==
    /\ Goto("L155", "L159")
    /\ extint_enabled' = TRUE
    /\ UNCHANGED << cpu_stopped, _env_variables, isr_vars, clock_vars, takes,
                    iter_vars, wdt_started, nm3_powered, en_3v3, tx_forced,
                    pullups, uart_open, modem_vars, local_vars, acts,
                    reset_cause >>

\* Variant: the channel is not opened before the modem is powered
L159_SkipUart ==
    /\ Goto("L159", "L164")
    /\ Advance(SleepSeconds(20))
    /\ UNCHANGED << cpu_stopped, _env_variables, isr_vars, takes, iter_vars,
                    wdt_started, rail_vars, modem_vars, local_vars, acts,
                    reset_cause >>

\* lines 159-161: uart = machine.UART(...); nm3_modem = Nm3(...); sleep_ms(20)
L159_OpenUart ==
    /\ Goto("L159", "L164")
    /\ uart_open' = TRUE
    /\ Advance(SleepSeconds(20))
    /\ acts' = Append(acts, Act("open_uart", ""))
    /\ UNCHANGED << cpu_stopped, _env_variables, isr_vars, takes, iter_vars,
                    wdt_started, nm3_powered, en_3v3, tx_forced, pullups,
                    extint_enabled, modem_vars, local_vars, reset_cause >>

\* line 164: wdt.feed()
L164_Feed ==
    /\ Goto("L164", "L168")
    /\ Feed
    /\ acts' = Append(acts, Act("feed", ""))
    /\ UNCHANGED << cpu_stopped, _env_variables, isr_vars, sync_age, takes,
                    iter_vars, wdt_started, rail_vars, modem_vars, local_vars,
                    reset_cause >>

\* line 168: utime.sleep_ms(10000)
L168_Settle ==
    /\ Goto("L168", "L169")
    /\ Advance(SleepSeconds(NM3_SETTLE_MS))
    /\ acts' = Append(acts, Act("sleep_ms", Decimal(NM3_SETTLE_MS)))
    /\ UNCHANGED << cpu_stopped, _env_variables, isr_vars, takes, iter_vars,
                    wdt_started, rail_vars, modem_vars, local_vars,
                    reset_cause >>

\* line 169: powermodule.enable_nm3()
L169_EnableNm3 ==
    /\ Goto("L169", "L170")
    /\ nm3_powered' = TRUE
    /\ acts' = Append(acts, Act("enable_nm3", ""))
    /\ UNCHANGED << cpu_stopped, _env_variables, isr_vars, clock_vars, takes,
                    iter_vars, wdt_started, en_3v3, tx_forced, pullups,
                    uart_open, extint_enabled, modem_vars, local_vars,
                    reset_cause >>

\* line 170: utime.sleep_ms(10000)
L170_AwaitBootloader ==
    /\ Goto("L170", "L173")
    /\ Advance(SleepSeconds(NM3_SETTLE_MS))
    /\ acts' = Append(acts, Act("sleep_ms", Decimal(NM3_SETTLE_MS)))
    /\ UNCHANGED << cpu_stopped, _env_variables, isr_vars, takes, iter_vars,
                    wdt_started, rail_vars, modem_vars, local_vars,
                    reset_cause >>

\* line 173: wdt.feed()
L173_Feed ==
    /\ Goto("L173", "L189")
    /\ Feed
    /\ acts' = Append(acts, Act("feed", ""))
    /\ UNCHANGED << cpu_stopped, _env_variables, isr_vars, sync_age, takes,
                    iter_vars, wdt_started, rail_vars, modem_vars, local_vars,
                    reset_cause >>

\* send_usmart_alive_message(modem), lines 78-89: the address and the voltage
\* are asked of the modem and one alive broadcast is sent.
send_usmart_alive_message ==
    \E a \in Addresses, v \in Voltages :
        acts' = Append(acts, Act("send_broadcast_message", AliveString(a, v)))

\* lines 179-189: address and voltage are read and logged, then the alive
\* message is broadcast
L189_SendAlive ==
    /\ Goto("L189", "L194")
    /\ send_usmart_alive_message
    /\ UNCHANGED << cpu_stopped, _env_variables, isr_vars, clock_vars, takes,
                    iter_vars, wdt_started, rail_vars, modem_vars, local_vars,
                    reset_cause >>

\* lines 194-207: feed, sleep_ms(500), the network module is given the modem
\* and the watchdog, sleep_ms(100), feed; the loop is entered
L194_InitNetwork ==
    /\ Goto("L194", "L223")
    /\ sync_age' = Min(sync_age + SleepSeconds(500) + SleepSeconds(100),
                       SYNC_WINDOW_S + 1)
    /\ Feed
    /\ acts' = << >>
    /\ UNCHANGED << cpu_stopped, _env_variables, isr_vars, takes, iter_vars,
                    wdt_started, rail_vars, modem_vars, local_vars,
                    reset_cause >>

\* --------------------------------------------------------------- main loop
\* line 223: wdt.feed(), first statement of the try block
L223_Feed ==
    /\ Goto("L223", "L226")
    /\ Feed
    /\ acts' = << >>
    /\ iteration' = Min(iteration + 1, 2)
    /\ polled' = FALSE
    /\ slept' = FALSE
    /\ UNCHANGED << cpu_stopped, _env_variables, isr_vars, sync_age, takes,
                    wdt_started, rail_vars, modem_vars, local_vars,
                    reset_cause >>

\* line 226: pyb.Pin.board.EN_3V3.on()
L226_Enable3V3 ==
    /\ Goto("L226", "L230")
    /\ en_3v3' = TRUE
    /\ UNCHANGED << cpu_stopped, _env_variables, isr_vars, clock_vars, takes,
                    iter_vars, wdt_started, nm3_powered, tx_forced, pullups,
                    uart_open, extint_enabled, modem_vars, local_vars, acts,
                    reset_cause >>

\* line 230: if _nm3_callback_flag or (utime.time() < _nm3_callback_seconds + 30)
L230_ActiveTest ==
    /\ Live /\ pc = "L230"
    /\ pc' = IF _nm3_callback_flag \/ WithinWindow THEN "L231" ELSE "L323"
    /\ UNCHANGED << cpu_stopped, _env_variables, isr_vars, clock_vars, takes,
                    iter_vars, wdt_started, rail_vars, modem_vars, local_vars,
                    acts, reset_cause >>

\* lines 231-232: if _nm3_callback_flag: print(...)
L231_ObserveFlag ==
    /\ Goto("L231", "L234")
    /\ takes' = IF _nm3_callback_flag THEN Min(takes + 1, MaxEdges + 1)
                ELSE takes
    /\ UNCHANGED << cpu_stopped, _env_variables, isr_vars, clock_vars,
                    iter_vars, wdt_started, rail_vars, modem_vars, local_vars,
                    acts, reset_cause >>

\* Variant: line 234 without the clear: the flag stays set
L234_LeaveFlag ==
    /\ Goto("L234", "L238")
    /\ UNCHANGED << cpu_stopped, _env_variables, isr_vars, clock_vars, takes,
                    iter_vars, wdt_started, rail_vars, modem_vars, local_vars,
                    acts, reset_cause >>

\* line 234: _nm3_callback_flag = False
L234_ClearFlag ==
    /\ Goto("L234", "L238")
    /\ _nm3_callback_flag' = FALSE
    /\ UNCHANGED << cpu_stopped, _env_variables, _nm3_callback_seconds,
                    _nm3_callback_millis, _nm3_callback_micros, edges,
                    clock_vars, takes, iter_vars, wdt_started, rail_vars,
                    modem_vars, local_vars, acts, reset_cause >>

\* The payloads tried under an environment: _env_variables is read by the
\* USMOD command alone (lines 290-291), so the environments other than the
\* default are tried with USMOD only.
PayloadsUnder(env) == IF env = None THEN Payloads ELSE { USMOD }

\* The payloads of the k-th message of a run: the first message is any
\* payload; the messages behind it, which are there for the order of the
\* queue, are a command and a network packet that leave the device running.
PayloadsOf(env, k) == IF k = 1 THEN PayloadsUnder(env) ELSE { USPNG, NetPayload }

\* line 238: nm3_modem.poll_receiver(). The UART read is bounded by its
\* 100 ms timeout, so the seconds clock moves on by at most one; the bytes
\* of any number of further messages are read.
L238_PollReceiver ==
    /\ Goto("L238", "L239")
    /\ \E d \in { 0, 1 } : Advance(d)
    /\ \E n \in 0..(MaxMsgs - rx_count) :
          /\ rx_count' = rx_count + n
          /\ \E received \in [1..n -> Payloads] :
                 /\ \A i \in 1..n :
                        received[i] \in PayloadsOf(_env_variables, rx_count + i)
                 /\ nm3_incoming' = nm3_incoming \o
                     [i \in 1..n |-> [payload |-> received[i],
                                      arrival |-> rx_count + i]]
    /\ polled' = TRUE
    /\ UNCHANGED << cpu_stopped, _env_variables, isr_vars, takes, iteration,
                    slept, wdt_started, rail_vars, nm3_packets, dispatched,
                    local_vars, acts, reset_cause >>

\* line 239: nm3_modem.process_incoming_buffer() parses the bytes read into
\* received packets
L239_ProcessIncomingBuffer ==
    /\ Goto("L239", "L241")
    /\ nm3_packets' = nm3_packets \o
           [i \in 1..Len(nm3_incoming) |->
               [packet |-> Packet(nm3_incoming[i].payload),
                arrival |-> nm3_incoming[i].arrival]]
    /\ nm3_incoming' = << >>
    /\ UNCHANGED << cpu_stopped, _env_variables, isr_vars, clock_vars, takes,
                    iter_vars, wdt_started, rail_vars, rx_count, dispatched,
                    local_vars, acts, reset_cause >>

\* line 241: while nm3_modem.has_received_packet()
L241_HasReceivedPacket ==
    /\ Live /\ pc = "L241"
    /\ pc' = IF Len(nm3_packets) > 0 THEN "L246" ELSE "L323"
    /\ UNCHANGED << cpu_stopped, _env_variables, isr_vars, clock_vars, takes,
                    iter_vars, wdt_started, rail_vars, modem_vars, local_vars,
                    acts, reset_cause >>

\* lines 243-246: message_packet = nm3_modem.get_received_packet(), the
\* oldest packet of the queue
L246_GetReceivedPacket ==
    /\ Goto("L246", "L248")
    /\ message_packet' = Head(nm3_packets).packet
    /\ nm3_packets' = Tail(nm3_packets)
    /\ dispatched' = Append(dispatched, Head(nm3_packets).arrival)
    /\ acts' = << >>
    /\ UNCHANGED << cpu_stopped, _env_variables, isr_vars, clock_vars, takes,
                    iter_vars, wdt_started, rail_vars, nm3_incoming, rx_count,
                    nm3_address, mod_index, reset_cause >>

\* line 248: message_packet.timestamp = utime.localtime(_nm3_callback_seconds)
L248_CopySeconds ==
    /\ Goto("L248", "L249")
    /\ message_packet' =
           [message_packet EXCEPT !.timestamp = LocalTime(_nm3_callback_seconds)]
    /\ UNCHANGED << cpu_stopped, _env_variables, isr_vars, clock_vars, takes,
                    iter_vars, wdt_started, rail_vars, modem_vars,
                    nm3_address, mod_index, acts, reset_cause >>

\* line 249: message_packet.timestamp_millis = _nm3_callback_millis
L249_CopyMillis ==
    /\ Goto("L249", "L250")
    /\ message_packet' =
           [message_packet EXCEPT !.timestamp_millis = _nm3_callback_millis]
    /\ UNCHANGED << cpu_stopped, _env_variables, isr_vars, clock_vars, takes,
                    iter_vars, wdt_started, rail_vars, modem_vars,
                    nm3_address, mod_index, acts, reset_cause >>

\* line 250: message_packet.timestamp_micros = _nm3_callback_micros
L250_CopyMicros ==
    /\ Goto("L250", "L253")
    /\ message_packet' =
           [message_packet EXCEPT !.timestamp_micros = _nm3_callback_micros]
    /\ UNCHANGED << cpu_stopped, _env_variables, isr_vars, clock_vars, takes,
                    iter_vars, wdt_started, rail_vars, modem_vars,
                    nm3_address, mod_index, acts, reset_cause >>

\* ---------------------------------------------------------------- dispatch
\* message_packet.packet_payload and bytes(message_packet.packet_payload) == marker
PayloadIs(packet, marker) ==
    Truthy(packet.packet_payload) /\ packet.packet_payload = marker

\* Variant: the network test with the length compared to 1
IsNetworkPacketOffByOne(packet) ==
    /\ Truthy(packet.packet_payload)
    /\ Len(packet.packet_payload) > MIN_NETWORK_LEN - 1
    /\ SubSeq(packet.packet_payload, 1, 1) = << "#" >>

\* lines 307-308: payload and len(payload) > 2 and bytes(payload[:1]) == b'#'
IsNetworkPacket(packet) ==
    /\ Truthy(packet.packet_payload)
    /\ Len(packet.packet_payload) > MIN_NETWORK_LEN
    /\ SubSeq(packet.packet_payload, 1, 1) = << "#" >>

\* machine.reset(): the device restarts; the call does not return
MachineReset ==
    /\ pc' = "reset"
    /\ reset_cause' = "machine.reset"
    /\ acts' = Append(acts, Act("machine.reset", ""))

\* lines 253-257: the USMRT test; on a match the device is reset
L253_CheckReset ==
    /\ Live /\ pc = "L253"
    /\ IF PayloadIs(message_packet, USMRT)
       THEN MachineReset
       ELSE pc' = "L259" /\ UNCHANGED << acts, reset_cause >>
    /\ UNCHANGED << cpu_stopped, _env_variables, isr_vars, clock_vars, takes,
                    iter_vars, wdt_started, rail_vars, modem_vars,
                    local_vars >>

\* lines 259-261: the USOTA test
L259_CheckOta ==
    /\ Live /\ pc = "L259"
    /\ pc' = IF PayloadIs(message_packet, USOTA) THEN "L264" ELSE "L277"
    /\ UNCHANGED << cpu_stopped, _env_variables, isr_vars, clock_vars, takes,
                    iter_vars, wdt_started, rail_vars, modem_vars, local_vars,
                    acts, reset_cause >>

\* Variant: the write is not wrapped in a try of its own: the failure goes
\* to the except clause of the loop
OtaWriteFailedUncaught == "L361"

\* Where control goes when open('.USOTA', 'w') raises: the except clause of
\* the inner try, line 267.
OtaWriteFailed == "L268"

\* lines 263-266: the flag file '.USOTA' is created, or the write raises
L264_WriteOtaFlag ==
    /\ Live /\ pc = "L264"
    /\ \/ /\ pc' = "L275"
          /\ acts' = Append(acts, Act("open", ".USOTA"))
       \/ /\ pc' = OtaWriteFailed
          /\ acts' = Append(acts, Act("open raised", ".USOTA"))
    /\ UNCHANGED << cpu_stopped, _env_variables, isr_vars, clock_vars, takes,
                    iter_vars, wdt_started, rail_vars, modem_vars, local_vars,
                    reset_cause >>

\* lines 267-272: the failure of the write is logged and passed over
L268_LogOtaFailure ==
    /\ Goto("L268", "L275")
    /\ acts' = Append(acts, Act("jot_exception", ""))
    /\ UNCHANGED << cpu_stopped, _env_variables, isr_vars, clock_vars, takes,
                    iter_vars, wdt_started, rail_vars, modem_vars, local_vars,
                    reset_cause >>

\* line 275: machine.reset()
L275_Reset ==
    /\ Live /\ pc = "L275"
    /\ MachineReset
    /\ UNCHANGED << cpu_stopped, _env_variables, isr_vars, clock_vars, takes,
                    iter_vars, wdt_started, rail_vars, modem_vars,
                    local_vars >>

\* lines 277-279: the USPNG test
L277_CheckPing ==
    /\ Live /\ pc = "L277"
    /\ pc' = IF PayloadIs(message_packet, USPNG) THEN "L280" ELSE "L282"
    /\ UNCHANGED << cpu_stopped, _env_variables, isr_vars, clock_vars, takes,
                    iter_vars, wdt_started, rail_vars, modem_vars, local_vars,
                    acts, reset_cause >>

\* line 280: send_usmart_alive_message(nm3_modem)
L280_SendAlive ==
    /\ Goto("L280", "L282")
    /\ send_usmart_alive_message
    /\ UNCHANGED << cpu_stopped, _env_variables, isr_vars, clock_vars, takes,
                    iter_vars, wdt_started, rail_vars, modem_vars, local_vars,
                    reset_cause >>

\* lines 282-284: the USMOD test
L282_CheckMod ==
    /\ Live /\ pc = "L282"
    /\ pc' = IF PayloadIs(message_packet, USMOD) THEN "L288" ELSE "L307"
    /\ UNCHANGED << cpu_stopped, _env_variables, isr_vars, clock_vars, takes,
                    iter_vars, wdt_started, rail_vars, modem_vars, local_vars,
                    acts, reset_cause >>

\* lines 290-292: _env_variables and "installedModules" in _env_variables,
\* and the installed_modules found there is not empty
HasInstalledModules(env) ==
    /\ TruthyValue(env)
    /\ HasKey(env, "installedModules")
    /\ TruthyValue(Lookup(env, "installedModules"))

\* lines 288-293: nm3_address = nm3_modem.get_address(); the for loop over
\* installed_modules.items() is entered if there are installed modules
L288_GetAddress ==
    /\ Live /\ pc = "L288"
    /\ \E a \in Addresses : nm3_address' = a
    /\ IF HasInstalledModules(_env_variables)
       THEN pc' = "L293" /\ mod_index' = 1
       ELSE pc' = "L307" /\ mod_index' = mod_index
    /\ UNCHANGED << cpu_stopped, _env_variables, isr_vars, clock_vars, takes,
                    iter_vars, wdt_started, rail_vars, modem_vars,
                    message_packet, acts, reset_cause >>

\* installed_modules.items(), in the order of the mapping
InstalledItems == Lookup(_env_variables, "installedModules").items

\* line 293: for (mod, version) in installed_modules.items()
L293_NextModule ==
    /\ Live /\ pc = "L293"
    /\ pc' = IF mod_index <= Len(InstalledItems) THEN "L294" ELSE "L307"
    /\ UNCHANGED << cpu_stopped, _env_variables, isr_vars, clock_vars, takes,
                    iter_vars, wdt_started, rail_vars, modem_vars, local_vars,
                    acts, reset_cause >>

\* lines 294-296: mod_string is built and broadcast
L294_SendModule ==
    /\ Goto("L294", "L299")
    /\ acts' = Append(acts, Act("send_broadcast_message",
                ModString(nm3_address, InstalledItems[mod_index].key,
                          InstalledItems[mod_index].value)))
    /\ UNCHANGED << cpu_stopped, _env_variables, isr_vars, clock_vars, takes,
                    iter_vars, wdt_started, rail_vars, modem_vars, local_vars,
                    reset_cause >>

\* line 299: utime.sleep_ms(1000)
L299_SendDelay ==
    /\ Goto("L299", "L302")
    /\ Advance(SleepSeconds(MOD_SEND_DELAY_MS))
    /\ acts' = Append(acts, Act("sleep_ms", Decimal(MOD_SEND_DELAY_MS)))
    /\ UNCHANGED << cpu_stopped, _env_variables, isr_vars, takes, iter_vars,
                    wdt_started, rail_vars, modem_vars, local_vars,
                    reset_cause >>

\* line 302: wdt.feed(), end of the for body
L302_Feed ==
    /\ Goto("L302", "L293")
    /\ Feed
    /\ mod_index' = mod_index + 1
    /\ acts' = Append(acts, Act("feed", ""))
    /\ UNCHANGED << cpu_stopped, _env_variables, isr_vars, sync_age, takes,
                    iter_vars, wdt_started, rail_vars, modem_vars,
                    message_packet, nm3_address, reset_cause >>

\* lines 307-308: the network packet test
L307_CheckNetwork ==
    /\ Live /\ pc = "L307"
    /\ pc' = IF IsNetworkPacket(message_packet) THEN "L315" ELSE "L318"
    /\ UNCHANGED << cpu_stopped, _env_variables, isr_vars, clock_vars, takes,
                    iter_vars, wdt_started, rail_vars, modem_vars, local_vars,
                    acts, reset_cause >>

\* lines 312-316: gc.collect(); nm3_network.handle_packet(message_packet);
\* gc.collect()
L315_HandlePacket ==
    /\ Goto("L315", "L318")
    /\ acts' = Append(acts, ActPacket("handle_packet", message_packet))
    /\ UNCHANGED << cpu_stopped, _env_variables, isr_vars, clock_vars, takes,
                    iter_vars, wdt_started, rail_vars, modem_vars, local_vars,
                    reset_cause >>

\* Variant: an "if" in the place of the "while" of line 241: one message is
\* dispatched per iteration
L318_LeaveLoop ==
    /\ Goto("L318", "L323")
    /\ message_packet' = NoPacket
    /\ nm3_address' = 0
    /\ mod_index' = 0
    /\ acts' = << >>
    /\ UNCHANGED << cpu_stopped, _env_variables, isr_vars, clock_vars, takes,
                    iter_vars, wdt_started, rail_vars, modem_vars,
                    reset_cause >>

\* line 318: the end of the while body; message_packet, nm3_address and the
\* action log are dead from here on and are cleared
L318_EndOfMessage ==
    /\ Goto("L318", "L241")
    /\ message_packet' = NoPacket
    /\ nm3_address' = 0
    /\ mod_index' = 0
    /\ acts' = << >>
    /\ UNCHANGED << cpu_stopped, _env_variables, isr_vars, clock_vars, takes,
                    iter_vars, wdt_started, rail_vars, modem_vars,
                    reset_cause >>

\* ------------------------------------------------------------ sleep branch
\* line 323: if (not _nm3_callback_flag) and (utime.time() > _nm3_callback_seconds + 30);
\* otherwise the iteration ends and the next one starts at line 223
L323_SleepTest ==
    /\ Live /\ pc = "L323"
    /\ pc' = IF ~_nm3_callback_flag /\ PastWindow THEN "L326" ELSE "L223"
    /\ polled' = FALSE
    /\ UNCHANGED << cpu_stopped, _env_variables, isr_vars, clock_vars, takes,
                    iteration, slept, wdt_started, rail_vars, modem_vars,
                    local_vars, acts, reset_cause >>

\* Variant: line 326 without the second look at the flag
L326_NoDoubleCheck ==
    /\ Goto("L326", "L332")
    /\ UNCHANGED << cpu_stopped, _env_variables, isr_vars, clock_vars, takes,
                    iter_vars, wdt_started, rail_vars, modem_vars, local_vars,
                    acts, reset_cause >>

\* line 326: if (not _nm3_callback_flag), the double check
L326_DoubleCheck ==
    /\ Live /\ pc = "L326"
    /\ pc' = IF ~_nm3_callback_flag THEN "L332" ELSE "L340"
    /\ UNCHANGED << cpu_stopped, _env_variables, isr_vars, clock_vars, takes,
                    iter_vars, wdt_started, rail_vars, modem_vars, local_vars,
                    acts, reset_cause >>

\* lines 327-333: "Going to sleep." is logged and the I2C pull-ups are disabled
L332_PullupsOff ==
    /\ Goto("L332", "L335")
    /\ pullups' = "off"
    /\ UNCHANGED << cpu_stopped, _env_variables, isr_vars, clock_vars, takes,
                    iter_vars, wdt_started, nm3_powered, en_3v3, tx_forced,
                    uart_open, extint_enabled, modem_vars, local_vars, acts,
                    reset_cause >>

\* line 335: max3221e.tx_force_off()
L335_TxForceOff ==
    /\ Goto("L335", "L336")
    /\ tx_forced' = "off"
    /\ UNCHANGED << cpu_stopped, _env_variables, isr_vars, clock_vars, takes,
                    iter_vars, wdt_started, nm3_powered, en_3v3, pullups,
                    uart_open, extint_enabled, modem_vars, local_vars, acts,
                    reset_cause >>

\* lines 336-338: pyb.Pin.board.EN_3V3.off(); LED off; utime.sleep_ms(10)
L336_Disable3V3 ==
    /\ Goto("L336", "L340")
    /\ en_3v3' = FALSE
    /\ Advance(SleepSeconds(10))
    /\ slept' = TRUE
    /\ UNCHANGED << cpu_stopped, _env_variables, isr_vars, takes, iteration,
                    polled, wdt_started, nm3_powered, tx_forced, pullups,
                    uart_open, extint_enabled, modem_vars, local_vars, acts,
                    reset_cause >>

\* line 340: while (not _nm3_callback_flag)
L340_WhileNoFlag ==
    /\ Live /\ pc = "L340"
    /\ pc' = IF ~_nm3_callback_flag THEN "L342" ELSE "L351"
    /\ UNCHANGED << cpu_stopped, _env_variables, isr_vars, clock_vars, takes,
                    iter_vars, wdt_started, rail_vars, modem_vars, local_vars,
                    acts, reset_cause >>

\* line 342: wdt.feed()
L342_Feed ==
    /\ Goto("L342", "L346")
    /\ Feed
    /\ UNCHANGED << cpu_stopped, _env_variables, isr_vars, sync_age, takes,
                    iter_vars, wdt_started, rail_vars, modem_vars, local_vars,
                    acts, reset_cause >>

\* line 346: machine.lightsleep() stops the CPU until the next interrupt
L346_Lightsleep ==
    /\ Goto("L346", "L346_stopped")
    /\ cpu_stopped' = TRUE
    /\ UNCHANGED << _env_variables, isr_vars, clock_vars, takes, iter_vars,
                    wdt_started, rail_vars, modem_vars, local_vars, acts,
                    reset_cause >>

\* a second passes while the CPU is stopped; the watchdog keeps counting
Tick ==
    /\ Live /\ pc = "L346_stopped" /\ cpu_stopped
    /\ Advance(1)
    /\ UNCHANGED << pc, cpu_stopped, _env_variables, isr_vars, takes,
                    iter_vars, wdt_started, rail_vars, modem_vars, local_vars,
                    acts, reset_cause >>

\* machine.lightsleep() returns once an interrupt has woken the CPU
L346_LightsleepReturns ==
    /\ Goto("L346_stopped", "L340")
    /\ ~cpu_stopped
    /\ UNCHANGED << cpu_stopped, _env_variables, isr_vars, clock_vars, takes,
                    iter_vars, wdt_started, rail_vars, modem_vars, local_vars,
                    acts, reset_cause >>

\* line 351: wdt.feed(), first statement after the lightsleep cycle
L351_Feed ==
    /\ Goto("L351", "L353")
    /\ Feed
    /\ UNCHANGED << cpu_stopped, _env_variables, isr_vars, sync_age, takes,
                    iter_vars, wdt_started, rail_vars, modem_vars, local_vars,
                    acts, reset_cause >>

\* line 353: pyb.Pin.board.EN_3V3.on()
L353_Enable3V3 ==
    /\ Goto("L353", "L354")
    /\ en_3v3' = TRUE
    /\ UNCHANGED << cpu_stopped, _env_variables, isr_vars, clock_vars, takes,
                    iter_vars, wdt_started, nm3_powered, tx_forced, pullups,
                    uart_open, extint_enabled, modem_vars, local_vars, acts,
                    reset_cause >>

\* line 354: max3221e.tx_force_on()
L354_TxForceOn ==
    /\ Goto("L354", "L356")
    /\ tx_forced' = "on"
    /\ UNCHANGED << cpu_stopped, _env_variables, isr_vars, clock_vars, takes,
                    iter_vars, wdt_started, nm3_powered, en_3v3, pullups,
                    uart_open, extint_enabled, modem_vars, local_vars, acts,
                    reset_cause >>

\* lines 356-357: the I2C pull-ups are enabled; the iteration ends
L356_PullupsOn ==
    /\ Goto("L356", "L223")
    /\ pullups' = "on"
    /\ UNCHANGED << cpu_stopped, _env_variables, isr_vars, clock_vars, takes,
                    iter_vars, wdt_started, nm3_powered, en_3v3, tx_forced,
                    uart_open, extint_enabled, modem_vars, local_vars, acts,
                    reset_cause >>

\* ------------------------------------------------------------------ faults
\* The statements of the try block that may raise: the calls that talk to
\* the modem over the UART, the network module, the configuration of a pin
\* by name and machine.lightsleep(). The logger never raises.
FaultPoints == { "L238", "L280", "L288", "L294", "L315", "L332", "L346",
                 "L356" }

\* The statements between "try:" (line 221) and "except" (line 361).
TryBlock == { "L223", "L226", "L230", "L231", "L234", "L238", "L239", "L241",
              "L246", "L248", "L249", "L250", "L253", "L259", "L264", "L268",
              "L275", "L277", "L280", "L282", "L288", "L293", "L294", "L299",
              "L302", "L307", "L315", "L318", "L323", "L326", "L332", "L335",
              "L336", "L340", "L342", "L346", "L346_stopped", "L351", "L353",
              "L354", "L356" }

\* Variant: an except clause that does not match: the exception leaves
\* run_mainloop
ExceptClauseMisses == "propagated"

\* Where an exception raised in the try block is taken: "except Exception",
\* line 361.
ExceptClause == "L361"

\* A call raises an Exception: the statement is abandoned
Fault ==
    /\ Live /\ pc \in FaultPoints
    /\ pc' = ExceptClause
    /\ UNCHANGED << cpu_stopped, _env_variables, isr_vars, clock_vars, takes,
                    iter_vars, wdt_started, rail_vars, modem_vars, local_vars,
                    acts, reset_cause >>

\* lines 361-365: the exception is printed and logged; the while loop goes
\* on with its next iteration
L361_ExceptionHandler ==
    /\ Goto("L361", "L223")
    /\ acts' = << Act("jot_exception", "") >>
    /\ message_packet' = NoPacket
    /\ nm3_address' = 0
    /\ mod_index' = 0
    /\ UNCHANGED << cpu_stopped, _env_variables, isr_vars, clock_vars, takes,
                    iter_vars, wdt_started, rail_vars, modem_vars,
                    reset_cause >>

\* -------------------------------------------------------------- the system
Startup ==
    \/ set_environment_variables \/ L111_StartWatchdog \/ L136_Feed
    \/ L144_DisableNm3 \/ L147_Enable3V3 \/ L148_ConfigureY5
    \/ L150_TxForceOn
    \/ L155_RegisterExtInt \/ L159_OpenUart \/ L164_Feed \/ L168_Settle
    \/ L169_EnableNm3 \/ L170_AwaitBootloader \/ L173_Feed \/ L189_SendAlive
    \/ L194_InitNetwork

Active ==
    \/ L223_Feed \/ L226_Enable3V3 \/ L230_ActiveTest \/ L231_ObserveFlag
    \/ L234_ClearFlag \/ L238_PollReceiver \/ L239_ProcessIncomingBuffer
    \/ L241_HasReceivedPacket \/ L246_GetReceivedPacket \/ L248_CopySeconds
    \/ L249_CopyMillis \/ L250_CopyMicros

Dispatch ==
    \/ L253_CheckReset \/ L259_CheckOta \/ L264_WriteOtaFlag
    \/ L268_LogOtaFailure \/ L275_Reset \/ L277_CheckPing \/ L280_SendAlive
    \/ L282_CheckMod \/ L288_GetAddress \/ L293_NextModule \/ L294_SendModule
    \/ L299_SendDelay \/ L302_Feed \/ L307_CheckNetwork \/ L315_HandlePacket
    \/ L318_EndOfMessage

Sleep ==
    \/ L323_SleepTest \/ L326_DoubleCheck \/ L332_PullupsOff
    \/ L335_TxForceOff \/ L336_Disable3V3 \/ L340_WhileNoFlag \/ L342_Feed
    \/ L346_Lightsleep \/ L346_LightsleepReturns \/ L351_Feed
    \/ L353_Enable3V3 \/ L354_TxForceOn \/ L356_PullupsOn

\* A step of the main thread.
MainStep == Startup \/ Active \/ Dispatch \/ Sleep \/ Fault
                \/ L361_ExceptionHandler

Next == MainStep \/ ExtInt \/ Tick \/ WdtReset

Spec == Init /\ [][Next]_vars

\* The main thread runs whenever it has a statement to execute: the CPU is
\* either executing run_mainloop or stopped in machine.lightsleep(). Nothing
\* obliges an edge to arrive or time to pass.
FairSpec == Spec /\ WF_vars(MainStep)

\* ================================================================== claims
\* The statements of the loop after the dispatch: the sleep test, the sleep
\* half, the lightsleep cycle and the wake half.
SleepHalf == { "L332", "L335", "L336" }
LightsleepCycle == { "L340", "L342", "L346", "L346_stopped" }
WakeHalf == { "L351", "L353", "L354", "L356" }
SleepBranch == { "L326" } \cup SleepHalf \cup LightsleepCycle

\* The operations logged so far, without their arguments.
OpsOf(log) == [i \in 1..Len(log) |-> log[i].op]

\* ---- C1: once the watchdog is started, wdt.feed() is called at least once
\* in every window of the 30 s timeout, on every path, the lightsleep cycle
\* included, whatever the arrival of edges (none for more than 30 s included).
C1_FedWithinTimeout == wdt_started => wdt_elapsed < WDT_TIMEOUT_S

\* ---- C2: no wake event is missed: an edge that fires while the loop is in
\* the sleep branch (the flag is set there) leads, with no further edge, to
\* the loop leaving the lightsleep cycle and calling poll_receiver.
C2_EdgeInSleepBranch == _nm3_callback_flag /\ pc \in SleepBranch
C2_NoMissedWake == C2_EdgeInSleepBranch ~> (pc = "L238")

\* ---- C3: the three timestamps copied onto a received message come from
\* one edge: no two of them were written by two different edges.
C3_SnapshotFromOneEdge ==
    pc = "L253" =>
        LET s == message_packet.timestamp.localtime_of
            m == message_packet.timestamp_millis
            u == message_packet.timestamp_micros
        IN  \A f, g \in { s, m, u } : (f > 0 /\ g > 0) => f = g

\* ---- C4: the sleep half is entered only from the final check of line 326,
\* with the flag false and the time more than 30 s past the last wake
\* timestamp; with the flag set at that check the sleep half is skipped.
C4_SleepOnlyWhenIdle ==
    [][ /\ (pc' \in SleepHalf /\ pc \notin SleepHalf) =>
              /\ pc = "L326" /\ pc' = "L332"
              /\ ~_nm3_callback_flag
              /\ PastWindow
        /\ (pc = "L326" /\ _nm3_callback_flag) => pc' \notin SleepHalf
      ]_vars
C4_Witness ==
    pc = "L332" /\ ~_nm3_callback_flag /\ PastWindow /\ edges > 0

\* ---- C5: whenever the loop switches off the transmit path or the logic
\* supply rail (lines 335-336), the pending flag is false.
C5_PowerCutOnlyWhenIdle == pc \in { "L335", "L336" } => ~_nm3_callback_flag

\* ---- C6: the number of times the loop saw the flag true and cleared it is
\* at most the number of edges fired.
C6_TakesAtMostEdges == takes <= edges
C6_Witness == takes = MaxEdges /\ edges = MaxEdges

\* ---- C7: a fault raised inside an iteration is caught by the except
\* clause, logged, and followed by the next iteration; the loop is left only
\* by a reset of the device.
C7_LoopNeverExits ==
    [][ /\ pc \in TryBlock => pc' \in TryBlock \cup { "L361", "reset" }
        /\ (pc = "L361" /\ pc' # "L361") =>
              \/ pc' = "reset"
              \/ pc' = "L223" /\ OpsOf(acts') = << "jot_exception" >>
        /\ (pc' = "reset" /\ pc # "reset") =>
              reset_cause' \in { "machine.reset", "WDT_RESET" }
      ]_vars
C7_Witness ==
    pc = "L223" /\ OpsOf(acts) = << "jot_exception" >> /\ tx_forced = "off"

\* a is an initial part of b
IsPrefix(a, b) == Len(a) <= Len(b) /\ a = SubSeq(b, 1, Len(a))

\* The dispatch of message_packet is over: the end of the while body is
\* reached, or the command has reset the device.
DispatchDone ==
    \/ pc = "L318"
    \/ pc = "reset" /\ reset_cause = "machine.reset"

\* The alive broadcasts of the addresses and the voltage of the model.
C8_AliveBroadcasts == { "UA007B3.70VREV:2021-07-09T17:38:00",
                        "UA120B3.70VREV:2021-07-09T17:38:00" }

\* ---- C8: for a received payload the dispatcher performs the action of the
\* one category it matches and of no other: USMRT one reset and nothing
\* else, USOTA the flag write then the reset, USPNG exactly one alive
\* broadcast, USMOD module list broadcasts only, a payload of 3 bytes or more
\* starting with '#' one handle_packet, any other payload (empty, or '#' with
\* fewer than 3 bytes, included) nothing.
C8_FirstMatchOnly ==
    message_packet # NoPacket =>
        LET p == message_packet.packet_payload
            ops == OpsOf(acts)
            Exactly(expected) ==
                IsPrefix(ops, expected) /\ (DispatchDone => ops = expected)
        IN  IF p = << "U", "S", "M", "R", "T" >>
                THEN Exactly(<< "machine.reset" >>)
            ELSE IF p = << "U", "S", "O", "T", "A" >>
                THEN \/ Exactly(<< "open", "machine.reset" >>)
                     \/ Exactly(<< "open raised", "jot_exception",
                                   "machine.reset" >>)
            ELSE IF p = << "U", "S", "P", "N", "G" >>
                THEN /\ Exactly(<< "send_broadcast_message" >>)
                     /\ \A i \in 1..Len(acts) : acts[i].arg \in C8_AliveBroadcasts
            ELSE IF p = << "U", "S", "M", "O", "D" >>
                THEN \A i \in 1..Len(acts) :
                        /\ acts[i].op \in { "send_broadcast_message",
                                            "sleep_ms", "feed" }
                        /\ acts[i].arg \notin C8_AliveBroadcasts
            ELSE IF Len(p) >= 3 /\ p[1] = "#"
                THEN Exactly(<< "handle_packet" >>)
            ELSE acts = << >>
C8_Witness ==
    /\ pc = "L318"
    /\ message_packet.packet_payload = << "U", "S", "P", "N", "G" >>
    /\ OpsOf(acts) = << "send_broadcast_message" >>

\* ---- C9: on USOTA the flag write is attempted and then the device is
\* reset, in that order; the reset follows also when the write raises, the
\* failure being logged without reaching the outer except clause.
C9_OtaPath == { "L264", "L268", "L275" }
C9_OtaAlwaysResets ==
    [][ /\ (pc = "L259" /\ message_packet.packet_payload = USOTA) =>
              pc' \in { "L259", "L264", "reset" }
        /\ pc \in C9_OtaPath => pc' \in C9_OtaPath \cup { "reset" }
        /\ (pc \in C9_OtaPath /\ pc' = "reset"
                /\ reset_cause' = "machine.reset") =>
              OpsOf(acts') \in
                  { << "open", "machine.reset" >>,
                    << "open raised", "jot_exception", "machine.reset" >> }
      ]_vars
C9_Witness ==
    /\ pc = "reset"
    /\ message_packet.packet_payload = USOTA
    /\ OpsOf(acts) = << "open raised", "jot_exception", "machine.reset" >>

\* The module list of the environment EnvModules as the node of address 7 or
\* 120 broadcasts it: one send per module, each followed by the pause and
\* the watchdog feed.
C10_Expected(address) ==
    LET prefix == IF address = 7 THEN "UM007:" ELSE "UM120:"
    IN  << Act("send_broadcast_message", prefix \o "alpha:1.0"),
           Act("sleep_ms", "1000"), Act("feed", ""),
           Act("send_broadcast_message", prefix \o "beta:None"),
           Act("sleep_ms", "1000"), Act("feed", "") >>

\* ---- C10: on USMOD one broadcast is sent per installed module, in the
\* order of the mapping, carrying address, module name and version ("None"
\* when absent), with a pause and a watchdog feed after each send; without
\* an environment, or without installed modules in it, nothing is sent.
C10_ModuleBroadcasts ==
    (pc = "L318" /\ message_packet.packet_payload = USMOD) =>
        IF _env_variables = EnvModules
        THEN acts = C10_Expected(nm3_address)
        ELSE acts = << >>
C10_Witness ==
    /\ pc = "L318"
    /\ message_packet.packet_payload = USMOD
    /\ _env_variables = EnvModules
    /\ nm3_address = 7
    /\ Len(acts) = 6

\* ---- C11: the message handed to handle_packet is the message as
\* get_received_packet returned it: every field, the three timestamp fields
\* included, has the value the modem gave it.
C11_HandlePacketUnmodified ==
    \A i \in 1..Len(acts) :
        acts[i].op = "handle_packet" =>
            acts[i].packet = Packet(acts[i].packet.packet_payload)

\* The startup sequence is over: the log holds every call of lines 136-189.
StartupDone == pc = "L194"

\* The position of the first entry of the log with the operation op, or 0.
FirstOf(log, op) ==
    IF \E i \in 1..Len(log) : log[i].op = op
    THEN CHOOSE i \in 1..Len(log) :
             log[i].op = op /\ \A j \in 1..(i - 1) : log[j].op # op
    ELSE 0

\* ---- C12: in every startup the modem is powered off before the serial
\* channel is opened, the channel is opened before the modem is powered on,
\* and the power-on has a 10 s delay right before it and right after it.
C12_ChannelBeforePower ==
    pc \in { "L136", "L144", "L147", "L148", "L150", "L155", "L159", "L164", "L168",
             "L169", "L170", "L173", "L189", "L194" } =>
        LET off == FirstOf(acts, "disable_nm3")
            open == FirstOf(acts, "open_uart")
            on == FirstOf(acts, "enable_nm3")
        IN  /\ open > 0 => (off > 0 /\ off < open)
            /\ on > 0 =>
                  /\ open > 0 /\ open < on
                  /\ uart_open
                  /\ acts[on - 1] = Act("sleep_ms", "10000")
                  /\ Len(acts) > on => acts[on + 1] = Act("sleep_ms", "10000")
            /\ pc = "L169" => (uart_open /\ ~nm3_powered)
            /\ pc \in { "L173", "L189", "L194" } => (on > 0 /\ Len(acts) > on)
C12_Witness ==
    /\ StartupDone
    /\ FirstOf(acts, "enable_nm3") > FirstOf(acts, "open_uart")
    /\ FirstOf(acts, "open_uart") > FirstOf(acts, "disable_nm3")
    /\ FirstOf(acts, "disable_nm3") > 0
    /\ nm3_powered

\* ---- C13: at startup the transmit path is forced off and the modem is
\* powered off before the logic supply rail is switched on: when EN_3V3 has
\* just been enabled for the first time (line 147 done, line 148 next), the
\* modem is unpowered and the transmit path is in the forced-off state.
C13_TxOffBeforeRail ==
    pc = "L148" => (en_3v3 /\ ~nm3_powered /\ tx_forced = "off")

\* ---- C14: the loop starts ACTIVE: in the first iteration after any startup
\* (with or without an edge during the startup) poll_receiver has been
\* called when the sleep test of line 323 is reached, and the sleep half is
\* not executed.
C14_FirstIterationPolls ==
    iteration = 1 =>
        /\ pc = "L323" => polled
        /\ pc \notin SleepHalf
        /\ ~slept

\* ---- C15: every delay of a second or more (the log holds no shorter one)
\* has a watchdog feed as the call right before it and a watchdog feed as
\* the call right after it: no rail operation, send or other long delay
\* stands between the delay and its two feeds.
C15_FeedAroundDelay ==
    \A i \in 1..Len(acts) :
        acts[i].op = "sleep_ms" =>
            /\ i > 1 /\ acts[i - 1].op = "feed"
            /\ Len(acts) > i => acts[i + 1].op = "feed"

\* ---- C16: an ACTIVE iteration that no fault or reset cuts short polls and
\* parses the modem input and dispatches every received message once, in
\* the order of arrival: the messages taken so far are the arrivals 1, 2, ...
\* in that order, and when the iteration reaches the sleep test the queue
\* is empty and every message that arrived has been taken.
C16_DrainInOrder ==
    /\ dispatched = [i \in 1..Len(dispatched) |-> i]
    /\ (pc = "L323" /\ polled) =>
           /\ nm3_incoming = << >>
           /\ nm3_packets = << >>
           /\ Len(dispatched) = rx_count
C16_Witness ==
    /\ pc = "L323" /\ polled /\ iteration = 1
    /\ rx_count = 2 /\ dispatched = << 1, 2 >>
    /\ nm3_packets = << >>

\* ---- C17: the interrupt handler writes the four wake-event variables and
\* nothing else: it sets the flag and leaves the environment mapping, the
\* rails, the watchdog, the modem queue, the locals and the position of the
\* main loop as they are. Every other step leaves the three timestamps as
\* they are, and the flag is cleared by line 234 of the main loop only.
C17_HandlerFrame ==
    [][ /\ edges' # edges =>
              /\ _nm3_callback_flag'
              /\ _nm3_callback_seconds' = edges'
              /\ _nm3_callback_millis' = edges'
              /\ _nm3_callback_micros' = edges'
              /\ UNCHANGED << pc, _env_variables, takes, iter_vars,
                              wdt_started, wdt_elapsed, rail_vars, modem_vars,
                              local_vars, acts, reset_cause >>
        /\ edges' = edges =>
              /\ UNCHANGED << _nm3_callback_seconds, _nm3_callback_millis,
                              _nm3_callback_micros >>
              /\ _nm3_callback_flag' # _nm3_callback_flag =>
                    (pc = "L234" /\ pc' = "L238" /\ ~_nm3_callback_flag')
      ]_vars
C17_Witness ==
    /\ pc = "L238" /\ ~_nm3_callback_flag
    /\ edges = 2 /\ takes = 2
    /\ _nm3_callback_seconds = 2

\* ---- C18: the sleep half and the wake half alternate: the wake half
\* (lines 351-357) is executed only in an iteration that has executed the
\* sleep half (lines 327-338) before it.
C18_WakeOnlyAfterSleep == pc \in WakeHalf => slept

\* The statements of the loop that call the modem: poll_receiver,
\* process_incoming_buffer and the two sends.
ModemCalls == { "L238", "L239", "L280", "L294" }

\* ---- C19: whenever the loop is about to call the modem, the logic supply
\* rail is on and the transmit path is forced on, also in the iterations
\* that follow a fault caught by the except clause, a fault raised between
\* the sleep half and the wake half included.
C19_RailsOnAtModemCalls ==
    pc \in ModemCalls => (en_3v3 /\ tx_forced = "on")

\* ---- C20: the ACTIVE and the ASLEEP conditions cover every case: an
\* iteration that reaches the sleep test without having polled, its flag
\* still false (so that line 230 saw the flag and the clock as they are
\* now), finds the sleep condition true and enters the sleep branch; the
\* time being exactly the last wake timestamp plus 30 is such a case.
C20_PollOrSleep ==
    (pc = "L323" /\ ~polled /\ ~_nm3_callback_flag) => PastWindow

====
